---- MODULE Spec2Model ----
(***************************************************************************)
(* thanks-stars: discovery dispatch, repository identity parsing,          *)
(* deduplication and star reconciliation.                                  *)
(*                                                                         *)
(* Strings of the program are sequences of one-character strings, so that  *)
(* prefix stripping, splitting and trimming are computed as the code       *)
(* computes them.                                                          *)
(***************************************************************************)
EXTENDS Integers, Sequences, FiniteSets, TLC

(***************************************************************************)
(* Bounds of the model.                                                    *)
(***************************************************************************)
\* longest framework list handed to one run
MaxFrameworks == 2
\* longest repository list one discoverer returns
MaxRepos == 2
\* number of consecutive runs over the same project
MaxRuns == 2

(***************************************************************************)
(* Option<T>: None is the empty tuple, Some(x) the one-element tuple.      *)
(***************************************************************************)
None == <<>>
Some(x) == <<x>>
IsSome(o) == Len(o) = 1
Unwrap(o) == o[1]

(***************************************************************************)
(* String helpers (std::str).                                              *)
(***************************************************************************)
StartsWith(s, p) == Len(s) >= Len(p) /\ SubSeq(s, 1, Len(p)) = p
EndsWith(s, p) == Len(s) >= Len(p) /\ SubSeq(s, Len(s) - Len(p) + 1, Len(s)) = p
\* the remainder after a prefix that is known to be there
DropPrefix(s, p) == SubSeq(s, Len(p) + 1, Len(s))

DotGit == <<".", "g", "i", "t">>
GitHubUrlBase == <<"h", "t", "t", "p", "s", ":", "/", "/", "g", "i", "t", "h", "u", "b", ".", "c", "o", "m", "/">>

\* removes the suffix once, as str::strip_suffix would
StripDotGitOnce(s) ==
  IF EndsWith(s, DotGit) THEN SubSeq(s, 1, Len(s) - Len(DotGit)) ELSE s

\* str::trim_end_matches(".git"): removes the suffix repeatedly
RECURSIVE TrimEndDotGit(_)
TrimEndDotGit(s) ==
  IF EndsWith(s, DotGit) THEN TrimEndDotGit(SubSeq(s, 1, Len(s) - Len(DotGit))) ELSE s

(***************************************************************************)
(* discovery.rs: build_repository                                          *)
(***************************************************************************)
BuildRepository(owner, repo) ==
  LET name == TrimEndDotGit(repo) IN
  IF name = <<>> \/ owner = <<>>
  THEN None
  ELSE Some([owner |-> owner,
             name  |-> name,
             url   |-> GitHubUrlBase \o owner \o <<"/">> \o name,
             via   |-> None])

(***************************************************************************)
(* More of std::str, as used by the identity parser.                       *)
(***************************************************************************)
\* position of the first c in s, 0 when there is none
IndexOf(s, c) ==
  IF \E i \in 1..Len(s) : s[i] = c
  THEN CHOOSE i \in 1..Len(s) : s[i] = c /\ \A j \in 1..(i - 1) : s[j] # c
  ELSE 0

\* position of the last c in s, 0 when there is none
LastIndexOf(s, c) ==
  IF \E i \in 1..Len(s) : s[i] = c
  THEN CHOOSE i \in 1..Len(s) : s[i] = c /\ \A j \in (i + 1)..Len(s) : s[j] # c
  ELSE 0

\* str::split(c): the pieces between the separators, empty pieces included
RECURSIVE Split(_, _)
Split(s, c) ==
  LET k == IndexOf(s, c) IN
  IF k = 0 THEN <<s>>
  ELSE <<SubSeq(s, 1, k - 1)>> \o Split(SubSeq(s, k + 1, Len(s)), c)

RECURSIVE TrimStartMatches(_, _)
TrimStartMatches(s, c) ==
  IF s # <<>> /\ Head(s) = c THEN TrimStartMatches(Tail(s), c) ELSE s

RECURSIVE TrimEndMatches(_, _)
TrimEndMatches(s, c) ==
  IF s # <<>> /\ s[Len(s)] = c THEN TrimEndMatches(SubSeq(s, 1, Len(s) - 1), c) ELSE s

\* str::trim_matches(c)
TrimMatches(s, c) == TrimEndMatches(TrimStartMatches(s, c), c)

\* str::trim(): the blank is the only whitespace character of the model
Trim(s) == TrimMatches(s, " ")

LowerLetters == <<"a", "b", "c", "d", "e", "f", "g", "h", "i", "j", "k", "l", "m", "n", "o", "p", "q", "r", "s", "t", "u", "v", "w", "x", "y", "z">>
UpperLetters == <<"A", "B", "C", "D", "E", "F", "G", "H", "I", "J", "K", "L", "M", "N", "O", "P", "Q", "R", "S", "T", "U", "V", "W", "X", "Y", "Z">>
Digits == {"0", "1", "2", "3", "4", "5", "6", "7", "8", "9"}
IsAlpha(c) == \E i \in 1..26 : LowerLetters[i] = c \/ UpperLetters[i] = c
ToLowerChar(c) ==
  IF \E i \in 1..26 : UpperLetters[i] = c
  THEN LowerLetters[CHOOSE i \in 1..26 : UpperLetters[i] = c]
  ELSE c
ToLower(s) == [i \in 1..Len(s) |-> ToLowerChar(s[i])]

(***************************************************************************)
(* Url::parse of the url crate, as discovery.rs uses it: the scheme, the   *)
(* host and the path segments of an absolute URL, or an error.  The model  *)
(* covers inputs made of letters, digits, blank and + - . / : @ (no query, *)
(* fragment, backslash, bracket or percent sign).                          *)
(***************************************************************************)
UrlErr == [ok |-> FALSE, scheme |-> <<>>, host |-> None, segments |-> None]
UrlOk(scheme, host, segments) ==
  [ok |-> TRUE, scheme |-> scheme, host |-> host, segments |-> segments]

Str_http == <<"h", "t", "t", "p">>
Str_https == <<"h", "t", "t", "p", "s">>
Str_ws == <<"w", "s">>
Str_wss == <<"w", "s", "s">>
Str_ftp == <<"f", "t", "p">>
Str_file == <<"f", "i", "l", "e">>
SpecialSchemes == {Str_http, Str_https, Str_ws, Str_wss, Str_ftp, Str_file}

IsSchemeChar(c) == IsAlpha(c) \/ c \in Digits \/ c \in {"+", "-", "."}

\* the scheme is everything before the first ':', when it is well formed
HasScheme(s) ==
  LET k == IndexOf(s, ":") IN
  /\ k > 1
  /\ IsAlpha(s[1])
  /\ \A i \in 1..(k - 1) : IsSchemeChar(s[i])

\* a blank in a path segment is percent-encoded
RECURSIVE EncodeSegment(_)
EncodeSegment(seg) ==
  IF seg = <<>> THEN <<>>
  ELSE (IF Head(seg) = " " THEN <<"%", "2", "0">> ELSE <<Head(seg)>>)
       \o EncodeSegment(Tail(seg))

\* path parsing: "." segments are dropped and ".." removes the segment before
RECURSIVE NormalizeSegments(_, _)
NormalizeSegments(raw, acc) ==
  IF raw = <<>> THEN acc
  ELSE IF Head(raw) = <<".">> THEN NormalizeSegments(Tail(raw), acc)
  ELSE IF Head(raw) = <<".", ".">>
       THEN NormalizeSegments(Tail(raw),
              IF acc = <<>> THEN acc ELSE SubSeq(acc, 1, Len(acc) - 1))
  ELSE NormalizeSegments(Tail(raw), Append(acc, EncodeSegment(Head(raw))))

\* the path without its leading '/'
TrimStartOne(path) == IF path # <<>> /\ Head(path) = "/" THEN Tail(path) ELSE path

\* Url::path_segments of a path that starts with '/' (or is empty)
PathSegments(path) ==
  NormalizeSegments(Split(TrimStartOne(path), "/"), <<>>)

\* the authority (userinfo@host:port) and the path that follows it
AuthorityAndPath(scheme, s, special) ==
  LET slash == IndexOf(s, "/")
      authority == IF slash = 0 THEN s ELSE SubSeq(s, 1, slash - 1)
      path == IF slash = 0 THEN <<>> ELSE SubSeq(s, slash, Len(s))
      at == LastIndexOf(authority, "@")
      hostport == SubSeq(authority, at + 1, Len(authority))
      colon == IndexOf(hostport, ":")
      rawhost == IF colon = 0 THEN hostport ELSE SubSeq(hostport, 1, colon - 1)
      port == IF colon = 0 THEN <<>> ELSE SubSeq(hostport, colon + 1, Len(hostport))
      host == IF special THEN ToLower(rawhost) ELSE rawhost
  IN IF \E i \in 1..Len(port) : port[i] \notin Digits THEN UrlErr
     ELSE IF \E i \in 1..Len(rawhost) : rawhost[i] = " " THEN UrlErr
     ELSE IF rawhost = <<>>
          THEN (IF special THEN UrlErr
                ELSE UrlOk(scheme, None, Some(PathSegments(path))))
     ELSE UrlOk(scheme, Some(host), Some(PathSegments(path)))

UrlParse(s) ==
  LET k == IndexOf(s, ":")
      scheme == ToLower(SubSeq(s, 1, k - 1))
      rest == SubSeq(s, k + 1, Len(s))
  IN IF ~HasScheme(s) THEN UrlErr
     ELSE IF scheme = Str_file THEN UrlOk(scheme, None, Some(<<>>))
     ELSE IF scheme \in SpecialSchemes
          THEN AuthorityAndPath(scheme, TrimStartMatches(rest, "/"), TRUE)
     ELSE IF StartsWith(rest, <<"/", "/">>)
          THEN AuthorityAndPath(scheme, DropPrefix(rest, <<"/", "/">>), FALSE)
     ELSE IF StartsWith(rest, <<"/">>)
          THEN UrlOk(scheme, None, Some(PathSegments(rest)))
     ELSE UrlOk(scheme, None, None)

(***************************************************************************)
(* discovery.rs: parse_owner_repo                                          *)
(***************************************************************************)
ParseOwnerRepoLoose(s) ==
  LET parts == Split(TrimMatches(s, "/"), "/")
      owner == Trim(parts[1])
      repo == Trim(parts[2])
  IN IF Len(parts) < 2 THEN None
     ELSE IF owner = <<>> \/ repo = <<>> THEN None
     ELSE BuildRepository(owner, repo)

ParseOwnerRepo(s) ==
  LET parts == Split(TrimMatches(s, "/"), "/")
      owner == Trim(parts[1])
      repo == Trim(parts[2])
  IN IF Len(parts) < 2 THEN None
     ELSE IF owner = <<>> \/ repo = <<>> THEN None
     ELSE IF Len(parts) > 2 THEN None
     ELSE BuildRepository(owner, repo)

(***************************************************************************)
(* discovery.rs: parse_github_repository                                   *)
(***************************************************************************)
Str_github_colon == <<"g", "i", "t", "h", "u", "b", ":">>
Str_git_plus == <<"g", "i", "t", "+">>
Str_github_com == <<"g", "i", "t", "h", "u", "b", ".", "c", "o", "m">>
Str_git_at_github_com_colon == <<"g", "i", "t", "@">> \o Str_github_com \o <<":">>

\* lines 289-293: the SSH form, tried last
ParseSshForm(trimmed) ==
  IF StartsWith(trimmed, Str_git_at_github_com_colon)
  THEN ParseOwnerRepo(DropPrefix(trimmed, Str_git_at_github_com_colon))
  ELSE None

\* lines 275-284: a parsed URL counts when its host is exactly github.com
IsGitHubHost(host) == host = Some(Str_github_com)

ParseGithubRepository(s) ==
  LET trimmed == Trim(s)
      without_git == IF StartsWith(trimmed, Str_git_plus)
                     THEN DropPrefix(trimmed, Str_git_plus) ELSE trimmed
      url == UrlParse(without_git)
      segments == SelectSeq(Unwrap(url.segments), LAMBDA seg : seg # <<>>)
  IN IF trimmed = <<>> THEN None
     ELSE IF StartsWith(trimmed, Str_github_colon)
          THEN ParseOwnerRepo(Trim(DropPrefix(trimmed, Str_github_colon)))
     ELSE IF url.ok
          THEN (IF url.scheme = Str_file THEN None
                ELSE IF IsGitHubHost(url.host) /\ IsSome(url.segments)
                     THEN (IF Len(segments) < 2 THEN None
                           ELSE BuildRepository(segments[1], segments[2]))
                ELSE ParseSshForm(trimmed))
     ELSE IF IsSome(ParseOwnerRepo(without_git))
          THEN ParseOwnerRepo(without_git)
     ELSE ParseSshForm(trimmed)

(***************************************************************************)
(* Result<T, E> as a record with the same fields in both variants.         *)
(***************************************************************************)
Ok(v) == [ok |-> TRUE, value |-> v, error |-> "none"]
Err(e) == [ok |-> FALSE, value |-> <<>>, error |-> e]

SeqsUpTo(S, n) == UNION {[1..k -> S] : k \in 0..n}

(***************************************************************************)
(* The modelled part of the project and of the discoverers.                *)
(***************************************************************************)
\* discovery.rs: enum Framework (two of the twelve tags are modelled)
Frameworks == {"Node", "Cargo"}

\* the provenance label each discoverer writes into Repository.via
ViaLabel(f) ==
  CASE f = "Node" -> None
    [] f = "Cargo" -> Some("Cargo.toml")

\* the repository references the dependencies of the project carry
DependencyRefs == {<<"a", "/", "x">>, <<"A", "/", "x">>}

\* what a discoverer does with the project: it returns an error, it panics,
\* or it resolves the repository references of the dependencies, in the order
\* it reports them
Failing == [fails |-> TRUE, panics |-> FALSE, refs |-> <<>>]
Panicking == [fails |-> FALSE, panics |-> TRUE, refs |-> <<>>]
Resolving(refs) == [fails |-> FALSE, panics |-> FALSE, refs |-> refs]
ProjectViews ==
  {Failing, Panicking}
    \cup {Resolving(refs) : refs \in SeqsUpTo(DependencyRefs, MaxRepos)}

\* a call that unwinds with a panic instead of returning
Panicked == Err("panic")

VARIABLES
  entered,      \* the function of lib.rs the thread of the run is in
  markers,      \* frameworks whose marker file exists in the project root
  frameworks,   \* the framework list of the run, supplied or detected
  project,      \* project[f]: what discoverer f finds in the project root
  dry_run,      \* RunArgs.dry_run of the current run
  remote,       \* identities the viewer has starred on GitHub
  run,          \* number of the current run
  pc,           \* position of the main thread in the current run
  tstate,       \* tstate[i]: state of the i-th discoverer thread
  tresult,      \* tresult[i]: Option of what the i-th thread returned
  completed,    \* thread indices in the order the threads finished
  spawned,      \* number of handles pushed by the spawn loop
  joined,       \* number of handles joined by the join loop
  ordered,      \* ordered[i]: Option<Vec<Repository>> per framework slot
  dispatched,   \* Option of the result of discover_for_frameworks
  unique,       \* the deduplicated repository list
  index,        \* number of repositories the reconciliation loop finished
  already,      \* already_starred of the repository being processed
  starred,      \* the summary entries built so far
  events,       \* observer callbacks received in this run, in order
  calls,        \* GitHubApi calls made by this run, in order
  result,       \* Option of the Result the run returned
  prev          \* Option of the previous run's outcome

VARIABLES
  form,         \* how the input was written: [kind, owner, repo]
  input,        \* the string handed to parse_github_repository
  ppc,          \* "ready" before the parse, "done" after it
  parsed        \* Option<Repository> returned by the parse

VARIABLES
  request,      \* the GitHubClient method called: "star" or "viewer_has_starred"
  response,     \* what the HTTP exchange of the call gives
  cpc,          \* "ready" before the call returns, "done" after it
  outcome       \* the Result the method returned

VARIABLES
  names,        \* the gem names of the project, as the BTreeSet yields them
  registry,     \* registry[n]: what rubygems.org answers for gem n
  dpc,          \* position of RubyDiscoverer::discover: "loop" or "done"
  position,     \* number of names the loop has handled
  repositories, \* the Vec the loop pushes to
  returned      \* Option of the Result discover returned

runVars == <<entered, markers, frameworks, project, dry_run, remote, run, pc, tstate, tresult,
             completed, spawned, joined, ordered, dispatched, unique, index,
             already, starred, events, calls, result, prev>>
parseVars == <<form, input, ppc, parsed>>
clientVars == <<request, response, cpc, outcome>>
registryVars == <<names, registry, dpc, position, repositories, returned>>
vars == <<runVars, parseVars, clientVars, registryVars>>

(***************************************************************************)
(* A discoverer (ecosystems/cargo.rs 82-92, node.rs 40-53):                *)
(* every reference is parsed, a non-match is skipped, a match gets the     *)
(* discoverer's provenance label.                                          *)
(***************************************************************************)
RECURSIVE Resolve(_, _)
Resolve(refs, via) ==
  IF refs = <<>> THEN <<>>
  ELSE LET repository == ParseGithubRepository(Head(refs)) IN
       (IF IsSome(repository)
        THEN <<[Unwrap(repository) EXCEPT !.via = via]>>
        ELSE <<>>) \o Resolve(Tail(refs), via)

\* discovery.rs: discover_for_framework
Discover(f) ==
  IF project[f].panics THEN Panicked
  ELSE IF project[f].fails THEN Err(f)
  ELSE Ok(Resolve(project[f].refs, ViaLabel(f)))

\* the (owner, name) pairs GitHub knows the repositories by
Identity(repo) == <<repo.owner, repo.name>>
Identities == {Identity(Unwrap(ParseGithubRepository(r))) : r \in DependencyRefs}

Range(s) == {s[i] : i \in DOMAIN s}

(***************************************************************************)
(* Initial state: a project, a framework selection, a remote starred set.  *)
(***************************************************************************)
\* lib.rs 58-96: the four public functions that start a run
DetectingEntries == {"run", "run_with_handler"}
SuppliedEntries == {"run_with_frameworks", "run_with_frameworks_and_handler"}
GuardedEntries == DetectingEntries \cup {"run_with_frameworks"}
Entries == DetectingEntries \cup SuppliedEntries

\* discovery.rs 93-147: the frameworks whose marker file exists, in the
\* order the function tests them (package.json before Cargo.toml)
DetectionOrder == <<"Node", "Cargo">>
DetectFrameworks(present) == SelectSeq(DetectionOrder, LAMBDA f : f \in present)

\* a run is called with a project root and, by two of the entries, a framework
\* list; a project holds data only for frameworks that are present or named
RunInit ==
  /\ entered \in Entries
  /\ markers \in SUBSET Frameworks
  /\ frameworks \in SeqsUpTo(Frameworks, MaxFrameworks)
  /\ entered \in DetectingEntries => frameworks = <<>>
  /\ (entered \in SuppliedEntries /\ frameworks # <<>>) => markers = Range(frameworks)
  /\ project \in [Frameworks -> ProjectViews]
  /\ \A f \in Frameworks \ (markers \cup Range(frameworks)) :
       project[f] = Resolving(<<>>)
  /\ dry_run \in BOOLEAN
  /\ remote \in SUBSET Identities
  /\ run = 1
  /\ pc = "entry"
  /\ tstate = [i \in 1..Len(frameworks) |-> "unspawned"]
  /\ tresult = [i \in 1..Len(frameworks) |-> None]
  /\ completed = <<>>
  /\ spawned = 0
  /\ joined = 0
  /\ ordered = [i \in 1..Len(frameworks) |-> None]
  /\ dispatched = None
  /\ unique = <<>>
  /\ index = 0
  /\ already = FALSE
  /\ starred = <<>>
  /\ events = <<>>
  /\ calls = <<>>
  /\ result = None
  /\ prev = None

ParseIdle ==
  /\ form = [kind |-> "none", owner |-> <<>>, repo |-> <<>>, segs |-> <<>>]
  /\ input = <<>>
  /\ ppc = "idle"
  /\ parsed = None

\* no call of a GitHubClient method is looked at
NoResponse ==
  [transport |-> "none", status |-> 0,
   body |-> [valid |-> FALSE, errors |-> [field |-> "absent", list |-> <<>>],
             data |-> [field |-> "absent", repository |-> "absent", flag |-> "absent"]]]
NoOutcome == [ok |-> FALSE, value |-> FALSE, kind |-> "none", status |-> 0, body |-> <<>>]
ClientIdle ==
  /\ request = "none"
  /\ response = NoResponse
  /\ cpc = "idle"
  /\ outcome = NoOutcome

\* RubyDiscoverer::discover is not looked at
RegistryIdle ==
  /\ names = <<>>
  /\ registry = <<>>
  /\ dpc = "idle"
  /\ position = 0
  /\ repositories = <<>>
  /\ returned = None

Init == RunInit /\ ParseIdle /\ ClientIdle /\ RegistryIdle

cfgVars == <<entered, markers, frameworks, project>>
threadVars == <<tstate, tresult, completed>>
reconVars == <<unique, index, already, starred>>
logVars == <<events, calls>>

(***************************************************************************)
(* lib.rs: run, run_with_frameworks, run_with_handler                      *)
(***************************************************************************)
\* the framework list the entered function works with
FrameworksOf(fn, present, supplied) ==
  IF fn \in DetectingEntries THEN DetectFrameworks(present) ELSE supplied

\* lines 60, 72, 84: frameworks.is_empty()
NoFrameworksGuardNever(fw) == FALSE
NoFrameworksGuard(fw) == Len(fw) = 0

NoFrameworksError == Err(<<"NoFrameworks", "project_root">>)

\* lines 60-62, 72-74, 84-86: the guarded entries return the usage error
NoFrameworks ==
  /\ pc = "entry"
  /\ entered \in GuardedEntries
  /\ NoFrameworksGuard(FrameworksOf(entered, markers, frameworks))
  /\ frameworks' = FrameworksOf(entered, markers, frameworks)
  /\ result' = Some(NoFrameworksError)
  /\ pc' = "returned"
  /\ UNCHANGED <<entered, markers, project, dry_run, remote, run, threadVars,
                 spawned, joined, ordered, dispatched, reconVars, logVars, prev,
                 parseVars, clientVars, registryVars>>

\* lines 64, 75, 88: the guarded entries call run_with_frameworks_and_handler
\* with their list; line 91: the caller does so directly
Enter ==
  /\ pc = "entry"
  /\ entered \in GuardedEntries =>
       ~NoFrameworksGuard(FrameworksOf(entered, markers, frameworks))
  /\ entered' = "run_with_frameworks_and_handler"
  /\ frameworks' = FrameworksOf(entered, markers, frameworks)
  /\ tstate' = [i \in 1..Len(frameworks') |-> "unspawned"]
  /\ tresult' = [i \in 1..Len(frameworks') |-> None]
  /\ ordered' = [i \in 1..Len(frameworks') |-> None]
  /\ pc' = "start"
  /\ UNCHANGED <<markers, project, dry_run, remote, run, completed, spawned,
                 joined, dispatched, reconVars, logVars, result, prev, parseVars, clientVars, registryVars>>

(***************************************************************************)
(* discovery.rs: discover_for_frameworks                                   *)
(***************************************************************************)
\* line 171: no framework, no work
DispatchNone ==
  /\ pc = "start"
  /\ Len(frameworks) = 0
  /\ dispatched' = Some(Ok(<<>>))
  /\ pc' = "discovered"
  /\ UNCHANGED <<cfgVars, dry_run, remote, run, threadVars, spawned, joined,
                 ordered, reconVars, logVars, result, prev, parseVars, clientVars, registryVars>>

\* line 172: one framework runs inline on the calling thread
DispatchInline ==
  /\ pc = "start"
  /\ Len(frameworks) = 1
  /\ \E d \in {Discover(frameworks[1])} :
       IF d.error = "panic"
       THEN pc' = "panicked" /\ UNCHANGED dispatched
       ELSE dispatched' = Some(d) /\ pc' = "discovered"
  /\ UNCHANGED <<cfgVars, dry_run, remote, run, threadVars, spawned, joined,
                 ordered, reconVars, logVars, result, prev, parseVars, clientVars, registryVars>>

\* line 173: several frameworks open a thread scope
EnterScope ==
  /\ pc = "start"
  /\ Len(frameworks) >= 2
  /\ pc' = "spawn"
  /\ UNCHANGED <<cfgVars, dry_run, remote, run, threadVars, spawned, joined,
                 ordered, dispatched, reconVars, logVars, result, prev, parseVars, clientVars, registryVars>>

\* lines 176-183: the spawn loop pushes one handle per framework
Spawn ==
  /\ pc = "spawn"
  /\ spawned < Len(frameworks)
  /\ tstate' = [tstate EXCEPT ![spawned + 1] = "running"]
  /\ spawned' = spawned + 1
  /\ pc' = IF spawned + 1 = Len(frameworks) THEN "join" ELSE "spawn"
  /\ UNCHANGED <<cfgVars, dry_run, remote, run, tresult, completed, joined,
                 ordered, dispatched, reconVars, logVars, result, prev, parseVars, clientVars, registryVars>>

\* lines 178-181: the body of the i-th thread
Indexed(i, d) ==
  [ok |-> d.ok, value |-> [index |-> i, repos |-> d.value], error |-> d.error]
ThreadResult(i) == Indexed(i, Discover(frameworks[i]))

ThreadFinish(i) ==
  /\ tstate[i] = "running"
  /\ \E r \in {ThreadResult(i)} :
       /\ tstate' = [tstate EXCEPT
                       ![i] = IF r.error = "panic" THEN "panicked" ELSE "finished"]
       /\ tresult' = [tresult EXCEPT ![i] = Some(r)]
  /\ completed' = Append(completed, i)
  /\ UNCHANGED <<cfgVars, dry_run, remote, run, pc, spawned, joined, ordered,
                 dispatched, reconVars, logVars, result, prev, parseVars, clientVars, registryVars>>

\* line 187: expect() on the joined result panics when the thread panicked
JoinPanics(r) == r.error = "panic"

\* line 187: the ? after join() leaves the closure on a discoverer's error
JoinFailsNever(r) == FALSE
JoinFails(r) == ~r.ok

\* line 188: the slot of `ordered` a joined result is written to
SlotReversed(i, n) == n + 1 - i
SlotOf(i, n) == i

\* line 186: `for handle in handles` takes the handles in spawn order; `j`
\* handles have been joined and `done` lists the threads as they finished
HandleByCompletion(j, done) == IF j < Len(done) THEN done[j + 1] ELSE j + 1
HandleOf(j, done) == j + 1

\* lines 186-189: the join loop
Join ==
  /\ pc = "join"
  /\ joined < Len(frameworks)
  /\ tstate[HandleOf(joined, completed)] \in {"finished", "panicked"}
  /\ LET r == Unwrap(tresult[HandleOf(joined, completed)]) IN
       IF JoinPanics(r)
       THEN /\ dispatched' = Some(Panicked)
            /\ pc' = "scope_exit"
            /\ UNCHANGED <<joined, ordered>>
       ELSE IF JoinFails(r)
       THEN /\ dispatched' = Some(Err(r.error))
            /\ pc' = "scope_exit"
            /\ UNCHANGED <<joined, ordered>>
       ELSE /\ ordered' = [ordered EXCEPT
                             ![SlotOf(r.value.index, Len(frameworks))] = Some(r.value.repos)]
            /\ joined' = joined + 1
            /\ UNCHANGED <<pc, dispatched>>
  /\ UNCHANGED <<cfgVars, dry_run, remote, run, threadVars, spawned,
                 reconVars, logVars, result, prev, parseVars, clientVars, registryVars>>

\* lines 191-194: ordered.into_iter().flatten(), each list appended in turn
RECURSIVE Flatten(_)
Flatten(slots) ==
  IF slots = <<>> THEN <<>>
  ELSE (IF IsSome(Head(slots)) THEN Unwrap(Head(slots)) ELSE <<>>)
       \o Flatten(Tail(slots))

\* a dispatch that returns what has been joined so far and leaves the other
\* threads behind
ConcatenateUnjoined ==
  /\ pc = "join"
  /\ dispatched' = Some(Ok(Flatten(ordered)))
  /\ pc' = "discovered"
  /\ UNCHANGED <<cfgVars, dry_run, remote, run, threadVars, spawned, joined,
                 ordered, reconVars, logVars, result, prev, parseVars, clientVars, registryVars>>

\* lines 191-196: after the last join the closure returns the concatenation
Concatenate ==
  /\ pc = "join"
  /\ joined = Len(frameworks)
  /\ dispatched' = Some(Ok(Flatten(ordered)))
  /\ pc' = "scope_exit"
  /\ UNCHANGED <<cfgVars, dry_run, remote, run, threadVars, spawned, joined,
                 ordered, reconVars, logVars, result, prev, parseVars, clientVars, registryVars>>

\* line 173: thread::scope returns once no spawned thread is running
ScopeNeverWaits(ts) == TRUE
ScopeCanExit(ts) == \A i \in DOMAIN ts : ts[i] # "running"

\* line 173: thread::scope panics instead of returning when the closure
\* panicked or when a thread whose handle was never joined panicked; the join
\* loop has taken j handles, and one more when it left with an error
ScopePanicsOnlyFromClosure(ts, j, closure) == closure.error = "panic"
ScopePanics(ts, j, closure) ==
  \/ closure.error = "panic"
  \/ \E i \in (j + 2)..Len(ts) : ts[i] = "panicked"

ScopeExit ==
  /\ pc = "scope_exit"
  /\ ScopeCanExit(tstate)
  /\ IF ScopePanics(tstate, joined, Unwrap(dispatched))
     THEN pc' = "panicked" /\ dispatched' = None
     ELSE pc' = "discovered" /\ UNCHANGED dispatched
  /\ UNCHANGED <<cfgVars, dry_run, remote, run, threadVars, spawned, joined,
                 ordered, reconVars, logVars, result, prev, parseVars, clientVars, registryVars>>

(***************************************************************************)
(* lib.rs: run_with_frameworks_and_handler                                 *)
(***************************************************************************)
\* line 97: the ? after discover_for_frameworks
DiscoveryFailed ==
  /\ pc = "discovered"
  /\ ~Unwrap(dispatched).ok
  /\ result' = Some(Err(<<"Discovery", Unwrap(dispatched).error>>))
  /\ pc' = "returned"
  /\ UNCHANGED <<cfgVars, dry_run, remote, run, threadVars, spawned, joined,
                 ordered, dispatched, reconVars, logVars, prev, parseVars, clientVars, registryVars>>

\* a string with its capital letters replaced by small ones
FoldCase(s) ==
  [k \in 1..Len(s) |->
     CASE s[k] = "A" -> "a"
       [] s[k] = "B" -> "b"
       [] s[k] = "X" -> "x"
       [] OTHER -> s[k]]

\* line 102: the key of the `seen` set
DedupKeyFolded(repo) == <<FoldCase(repo.owner), FoldCase(repo.name)>>
DedupKeyWithVia(repo) == <<repo.owner, repo.name, repo.via>>
DedupKey(repo) == <<repo.owner, repo.name>>

\* lines 99-105: keep a repository when its key enters `seen`
RECURSIVE DedupFrom(_, _, _)
DedupFrom(repos, seen, acc) ==
  IF repos = <<>> THEN acc
  ELSE IF DedupKey(Head(repos)) \in seen
       THEN DedupFrom(Tail(repos), seen, acc)
       ELSE DedupFrom(Tail(repos), seen \cup {DedupKey(Head(repos))},
                      Append(acc, Head(repos)))

RECURSIVE DedupRuns(_, _)
DedupRuns(repos, acc) ==
  IF repos = <<>> THEN acc
  ELSE IF acc # <<>> /\ DedupKey(acc[Len(acc)]) = DedupKey(Head(repos))
       THEN DedupRuns(Tail(repos), acc)
       ELSE DedupRuns(Tail(repos), Append(acc, Head(repos)))

DedupAdjacent(repos) == DedupRuns(repos, <<>>)
NoDedup(repos) == repos
Dedup(repos) == DedupFrom(repos, {}, <<>>)

Deduplicate ==
  /\ pc = "discovered"
  /\ Unwrap(dispatched).ok
  /\ unique' = Dedup(Unwrap(dispatched).value)
  /\ pc' = "on_start"
  /\ UNCHANGED <<cfgVars, dry_run, remote, run, threadVars, spawned, joined,
                 ordered, dispatched, index, already, starred, logVars, result,
                 prev, parseVars, clientVars, registryVars>>

\* line 107: the count given to on_start is the length of `unique`
StartTotalOfDiscovered(uniq, repos) == Len(repos)
StartTotal(uniq, repos) == Len(uniq)

\* line 109: `total`, the count given to every on_starred
LoopTotal(uniq) == Len(uniq)

\* line 116: enumerate() counts from 0, the observer is given index + 1
ProgressIndexZeroBased(i) == i
ProgressIndex(i) == i + 1

\* line 111: the repository the loop is at after i completed iterations
CurrentReversed(uniq, i) == uniq[Len(uniq) - i]
Current(uniq, i) == uniq[i + 1]

\* line 123
SummaryOfStarredOnly(entries) ==
  [starred |-> SelectSeq(entries, LAMBDA e : ~e.already_starred)]
SummaryOf(entries) == [starred |-> entries]

\* line 107
OnStart ==
  /\ pc = "on_start"
  /\ events' = Append(events, [ev |-> "on_start",
                               total |-> StartTotal(unique, Unwrap(dispatched).value)])
  /\ pc' = "loop"
  /\ UNCHANGED <<cfgVars, dry_run, remote, run, threadVars, spawned, joined,
                 ordered, dispatched, reconVars, calls, result, prev, parseVars, clientVars, registryVars>>

(***************************************************************************)
(* The GitHubApi the run is given: MaybeDryRunClient around the client.    *)
(***************************************************************************)
ApiOk(v) == [ok |-> TRUE, value |-> v, error |-> "none"]
ApiErr == [ok |-> FALSE, value |-> FALSE, error |-> "Api"]

\* main.rs 344-350: star is forwarded to the client unless dry_run is set
StarAlwaysForwarded(dry) == TRUE
StarNeverForwarded(dry) == FALSE
StarForwarded(dry) == ~dry

\* lib.rs 113: the star call is made for a repository not yet starred
ShouldStarAlways(already_starred) == TRUE
ShouldStarNever(already_starred) == FALSE
ShouldStar(already_starred) == ~already_starred

\* lib.rs 112, 114: the ? after an API call returns from the run on an error
TryContinue(r, next) == next
Try(r, next) == IF r.ok THEN next ELSE "returned"

\* lib.rs 112, 114: the ? returns at once; what the run has starred so far
\* (`done`, the entries pushed at 117-120) stays starred on the remote
UnstarredOnError(rem, done) ==
  rem \ {<<done[k].repository.owner, done[k].repository.name>> :
           k \in {j \in 1..Len(done) : ~done[j].already_starred}}
KeptOnError(rem, done) == rem

Call(op, repo, r, inner) ==
  [op |-> op, owner |-> repo.owner, name |-> repo.name,
   ok |-> r.ok, value |-> r.value, inner |-> inner]

\* lib.rs 112 with main.rs 340-342: the query is always forwarded; the
\* client answers with the remote state or fails
Query ==
  /\ pc = "loop"
  /\ index < Len(unique)
  /\ LET repo == Current(unique, index) IN
     \E r \in {ApiOk(Identity(repo) \in remote), ApiErr} :
       /\ calls' = Append(calls, Call("viewer_has_starred", repo, r, TRUE))
       /\ already' = r.value
       /\ pc' = Try(r, IF ShouldStar(r.value) THEN "star" ELSE "record")
       /\ result' = IF pc' = "returned" THEN Some(Err(<<"GitHub", r.error>>))
                    ELSE result
       /\ remote' = IF r.ok THEN remote ELSE KeptOnError(remote, starred)
  /\ UNCHANGED <<cfgVars, dry_run, run, threadVars, spawned, joined,
                 ordered, dispatched, unique, index, starred, events, prev,
                 parseVars, clientVars, registryVars>>

\* lib.rs 162-169, github.rs 108-126: a successful star puts the repository
\* into the starred set of the account
StarNoEffect(rem, id) == rem
StarEffect(rem, id) == rem \cup {id}

\* lib.rs 114 with main.rs 344-350: a forwarded star succeeds and changes the
\* remote state, or fails; a star that is not forwarded succeeds
Star ==
  /\ pc = "star"
  /\ LET repo == Current(unique, index)
         inner == StarForwarded(dry_run) IN
     \E r \in (IF inner THEN {ApiOk(TRUE), ApiErr} ELSE {ApiOk(TRUE)}) :
       /\ calls' = Append(calls, Call("star", repo, r, inner))
       /\ remote' = IF ~r.ok THEN KeptOnError(remote, starred)
                    ELSE IF inner THEN StarEffect(remote, Identity(repo))
                    ELSE remote
       /\ pc' = Try(r, "record")
       /\ result' = IF pc' = "returned" THEN Some(Err(<<"GitHub", r.error>>))
                    ELSE result
  /\ UNCHANGED <<cfgVars, dry_run, run, threadVars, spawned, joined, ordered,
                 dispatched, reconVars, events, prev, parseVars, clientVars, registryVars>>

\* lib.rs 116-120
Record ==
  /\ pc = "record"
  /\ LET repo == Current(unique, index) IN
       /\ events' = Append(events, [ev |-> "on_starred", repo |-> repo,
                                    already_starred |-> already,
                                    index |-> ProgressIndex(index),
                                    total |-> LoopTotal(unique)])
       /\ starred' = Append(starred, [repository |-> repo,
                                      already_starred |-> already])
  /\ index' = index + 1
  /\ pc' = "loop"
  /\ UNCHANGED <<cfgVars, dry_run, remote, run, threadVars, spawned, joined,
                 ordered, dispatched, unique, already, calls, result, prev,
                 parseVars, clientVars, registryVars>>

\* lib.rs 123-126
Complete ==
  /\ pc = "loop"
  /\ index = Len(unique)
  /\ events' = Append(events, [ev |-> "on_complete", summary |-> SummaryOf(starred)])
  /\ result' = Some(Ok(SummaryOf(starred)))
  /\ pc' = "returned"
  /\ UNCHANGED <<cfgVars, dry_run, remote, run, threadVars, spawned, joined,
                 ordered, dispatched, reconVars, calls, prev, parseVars, clientVars, registryVars>>

\* the program is run again over the same project and framework selection
NextRun ==
  /\ pc = "returned"
  /\ run < MaxRuns
  /\ prev' = Some([result |-> Unwrap(result), dry_run |-> dry_run,
                   delivered |-> starred])
  /\ run' = run + 1
  /\ dry_run' \in BOOLEAN
  /\ entered' \in Entries
  /\ entered' \in DetectingEntries => DetectFrameworks(markers) = frameworks
  /\ frameworks' = IF entered' \in DetectingEntries THEN <<>> ELSE frameworks
  /\ pc' = "entry"
  /\ tstate' = [i \in 1..Len(frameworks') |-> "unspawned"]
  /\ tresult' = [i \in 1..Len(frameworks') |-> None]
  /\ completed' = <<>>
  /\ spawned' = 0
  /\ joined' = 0
  /\ ordered' = [i \in 1..Len(frameworks') |-> None]
  /\ dispatched' = None
  /\ unique' = <<>>
  /\ index' = 0
  /\ already' = FALSE
  /\ starred' = <<>>
  /\ events' = <<>>
  /\ calls' = <<>>
  /\ result' = None
  /\ UNCHANGED <<markers, project, remote, parseVars, clientVars, registryVars>>

Next ==
  \/ NoFrameworks
  \/ Enter
  \/ DispatchNone
  \/ DispatchInline
  \/ EnterScope
  \/ Spawn
  \/ \E i \in 1..Len(frameworks) : ThreadFinish(i)
  \/ Join
  \/ Concatenate
  \/ ScopeExit
  \/ DiscoveryFailed
  \/ Deduplicate
  \/ OnStart
  \/ Query
  \/ Star
  \/ Record
  \/ Complete
  \/ NextRun

Spec == Init /\ [][Next]_vars

(***************************************************************************)
(* The identity parser on its own: one input, one parse.                   *)
(***************************************************************************)
\* longest owner or repository name written into an input form
MaxNameLen == 2
\* longest input assembled from pieces
MaxPieces == 3
\* most segments of a shorthand input
MaxSegments == 3

NameChars == {"a", "B", "-"}
Names == UNION {[1..k -> NameChars] : k \in 1..MaxNameLen}

Str_https_github == Str_https \o <<":", "/", "/">> \o Str_github_com \o <<"/">>
Str_https_example == Str_https \o <<":", "/", "/", "e", "x", "a", "m", "p", "l", "e", ".", "c", "o", "m", "/">>
Str_git_at_gitlab == <<"g", "i", "t", "@", "g", "i", "t", "l", "a", "b", ".", "c", "o", "m", ":">>

\* the input forms of a reference to owner/repo
GitHubForms == {"shorthand", "https", "git+https", "github:", "ssh"}
OtherHostForms == {"https_other", "ssh_other"}
Written(kind, owner, repo) ==
  CASE kind = "shorthand" -> owner \o <<"/">> \o repo
    [] kind = "https" -> Str_https_github \o owner \o <<"/">> \o repo
    [] kind = "git+https" -> Str_git_plus \o Str_https_github \o owner \o <<"/">> \o repo \o DotGit
    [] kind = "github:" -> Str_github_colon \o owner \o <<"/">> \o repo
    [] kind = "ssh" -> Str_git_at_github_com_colon \o owner \o <<"/">> \o repo \o DotGit
    [] kind = "https_other" -> Str_https_example \o owner \o <<"/">> \o repo
    [] kind = "ssh_other" -> Str_git_at_gitlab \o owner \o <<"/">> \o repo

\* arbitrary inputs: up to MaxPieces pieces, written one after the other
Pieces == {<<"a">>, <<"B">>, <<"/">>, <<" ">>, <<":">>, <<".">>, DotGit,
           Str_github_colon, Str_git_plus, Str_https_github,
           Str_git_at_github_com_colon}
RECURSIVE Flat(_)
Flat(ps) == IF ps = <<>> THEN <<>> ELSE Head(ps) \o Flat(Tail(ps))

\* shorthand inputs: segments written with a slash between them, bare or
\* after github:
Segments == {<<>>, <<"a">>, <<"B">>, <<" ">>}
SegmentKinds == {"segments", "github:segments"}
RECURSIVE JoinSlash(_)
JoinSlash(segs) ==
  IF segs = <<>> THEN <<>>
  ELSE IF Len(segs) = 1 THEN Head(segs)
  ELSE Head(segs) \o <<"/">> \o JoinSlash(Tail(segs))

WrittenSegments(kind, segs) ==
  (IF kind = "github:segments" THEN Str_github_colon ELSE <<>>) \o JoinSlash(segs)

\* references whose repo part carries .git suffixes, after a name or alone
SuffixedForms == {"shorthand.git", "https.git", "github:.git", "ssh.git"}
FormOf(kind) ==
  CASE kind = "shorthand.git" -> "shorthand"
    [] kind = "https.git" -> "https"
    [] kind = "github:.git" -> "github:"
    [] kind = "ssh.git" -> "ssh"
Suffixes == {<<DotGit>>, <<DotGit, DotGit>>}

ParseInit ==
  /\ \/ /\ form \in [kind : GitHubForms \cup OtherHostForms, owner : Names,
                     repo : Names, segs : {<<>>}]
        /\ input = Written(form.kind, form.owner, form.repo)
     \/ /\ form \in [kind : SuffixedForms, owner : Names,
                     repo : Names \cup {<<>>}, segs : Suffixes]
        /\ input = Written(FormOf(form.kind), form.owner,
                           form.repo \o Flat(form.segs))
     \/ /\ form = [kind |-> "pieces", owner |-> <<>>, repo |-> <<>>, segs |-> <<>>]
        /\ input \in {Flat(ps) : ps \in SeqsUpTo(Pieces, MaxPieces)}
     \/ /\ form \in [kind : SegmentKinds, owner : {<<>>}, repo : {<<>>},
                     segs : SeqsUpTo(Segments, MaxSegments)]
        /\ input = WrittenSegments(form.kind, form.segs)
  /\ ppc = "ready"
  /\ parsed = None
  /\ ClientIdle
  /\ RegistryIdle
  /\ entered = "run"
  /\ markers = {}
  /\ frameworks = <<>>
  /\ project = [f \in Frameworks |-> Resolving(<<>>)]
  /\ dry_run = FALSE
  /\ remote = {}
  /\ run = 1
  /\ pc = "idle"
  /\ tstate = <<>>
  /\ tresult = <<>>
  /\ completed = <<>>
  /\ spawned = 0
  /\ joined = 0
  /\ ordered = <<>>
  /\ dispatched = None
  /\ unique = <<>>
  /\ index = 0
  /\ already = FALSE
  /\ starred = <<>>
  /\ events = <<>>
  /\ calls = <<>>
  /\ result = None
  /\ prev = None

Parse ==
  /\ ppc = "ready"
  /\ parsed' = ParseGithubRepository(input)
  /\ ppc' = "done"
  /\ UNCHANGED <<form, input, runVars, clientVars, registryVars>>

ParseNext == Parse

ParseSpec == ParseInit /\ [][ParseNext]_vars

(***************************************************************************)
(* github.rs: GitHubClient, one call of one method against one HTTP        *)
(* exchange.                                                               *)
(***************************************************************************)
\* highest HTTP status code a response carries
MaxStatus == 599
\* most entries of the errors list of a GraphQL response
MaxErrors == 2

StatusCodes == 100..MaxStatus
ErrorMessages == {"boom", "denied"}

\* the JSON document of a response body: not JSON at all, or an object whose
\* errors field is absent, null or a list of {message}, and whose data field
\* is absent, null or an object with a repository that is absent, null or an
\* object with or without viewerHasStarred
Bodies ==
  {b \in [valid : BOOLEAN,
          errors : [field : {"absent", "null", "list"},
                    list : SeqsUpTo(ErrorMessages, MaxErrors)],
          data : [field : {"absent", "null", "object"},
                  repository : {"absent", "null", "object"},
                  flag : {"absent", "true", "false"}]] :
     /\ b.errors.field # "list" => b.errors.list = <<>>
     /\ b.data.field # "object" => b.data.repository = "absent"
     /\ b.data.repository # "object" => b.data.flag = "absent"
     /\ ~b.valid => b = NoResponse.body}

\* send() fails, reading the body fails, or a complete response arrives
Responses ==
  [transport : {"send_failed", "read_failed", "ok"}, status : StatusCodes, body : Bodies]

\* http::StatusCode::is_success
IsSuccess(status) == status \in 200..299

ClientOk(v) == [ok |-> TRUE, value |-> v, kind |-> "none", status |-> 0, body |-> <<>>]
\* github.rs 7-8: GitHubError::ClientBuild(reqwest::Error), through From
ClientBuildErr == [ok |-> FALSE, value |-> FALSE, kind |-> "ClientBuild", status |-> 0, body |-> <<>>]
\* github.rs 9-10: GitHubError::Api { status, body }
ApiError(status, body) ==
  [ok |-> FALSE, value |-> FALSE, kind |-> "Api", status |-> status, body |-> body]

\* the text of a body, as far as the error carries it
RawBody == <<"body">>

\* github.rs 119: the statuses star takes for success
StarSucceedsOn2xxOnly(status) == IsSuccess(status)
StarSucceeds(status) == IsSuccess(status) \/ status = 304

\* github.rs 108-126: response.text().unwrap_or_default() gives the empty
\* string when the body cannot be read
StarOutcome(resp) ==
  IF resp.transport = "send_failed" THEN ClientBuildErr
  ELSE IF StarSucceeds(resp.status) THEN ClientOk(TRUE)
  ELSE ApiError(resp.status, IF resp.transport = "read_failed" THEN <<>> ELSE RawBody)

\* serde_json::from_slice::<GraphqlResponse>: Option fields take None for an
\* absent or null field, viewerHasStarred is required
Deserialize(b) ==
  IF ~b.valid \/ (b.data.repository = "object" /\ b.data.flag = "absent")
  THEN [ok |-> FALSE, errors |-> None, data |-> None]
  ELSE [ok |-> TRUE,
        errors |-> IF b.errors.field = "list" THEN Some(b.errors.list) ELSE None,
        data |-> IF b.data.field = "object"
                 THEN Some([repository |->
                              IF b.data.repository = "object"
                              THEN Some([viewer_has_starred |-> b.data.flag = "true"])
                              ELSE None])
                 ELSE None]

\* github.rs 86-90: the messages, joined with ", "
RECURSIVE JoinComma(_)
JoinComma(ms) ==
  IF ms = <<>> THEN <<>>
  ELSE IF Len(ms) = 1 THEN ms
  ELSE <<Head(ms), ", ">> \o JoinComma(Tail(ms))

ParseFailure == <<"failed to parse GraphQL response">> \o RawBody
RepositoryMissing == <<"repository data missing from GraphQL response">>

\* github.rs 85: the responses whose errors are reported
HasErrorsNever(doc) == FALSE
HasErrors(doc) == IsSome(doc.errors)

\* github.rs 97-105
RepositoryFlag(status, data) ==
  IF IsSome(data) /\ IsSome(Unwrap(data).repository)
  THEN ClientOk(Unwrap(Unwrap(data).repository).viewer_has_starred)
  ELSE ApiError(status, RepositoryMissing)

\* github.rs 76-105: what the method makes of the deserialized body
Interpret(status, doc) ==
  IF ~doc.ok THEN ApiError(status, ParseFailure)
  ELSE IF HasErrors(doc) THEN ApiError(status, JoinComma(Unwrap(doc.errors)))
  ELSE RepositoryFlag(status, doc.data)

\* github.rs 49-106
ViewerHasStarredOutcome(resp) ==
  IF resp.transport # "ok" THEN ClientBuildErr
  ELSE IF ~IsSuccess(resp.status) THEN ApiError(resp.status, RawBody)
  ELSE Interpret(resp.status, Deserialize(resp.body))

RunIdle ==
  /\ entered = "run"
  /\ markers = {}
  /\ frameworks = <<>>
  /\ project = [f \in Frameworks |-> Resolving(<<>>)]
  /\ dry_run = FALSE
  /\ remote = {}
  /\ run = 1
  /\ pc = "idle"
  /\ tstate = <<>>
  /\ tresult = <<>>
  /\ completed = <<>>
  /\ spawned = 0
  /\ joined = 0
  /\ ordered = <<>>
  /\ dispatched = None
  /\ unique = <<>>
  /\ index = 0
  /\ already = FALSE
  /\ starred = <<>>
  /\ events = <<>>
  /\ calls = <<>>
  /\ result = None
  /\ prev = None

ClientInit ==
  /\ request \in {"star", "viewer_has_starred"}
  /\ response \in Responses
  /\ request = "star" => response.body = NoResponse.body
  /\ response.transport = "send_failed" =>
       response.status = 200 /\ response.body = NoResponse.body
  /\ cpc = "ready"
  /\ outcome = NoOutcome
  /\ RunIdle
  /\ ParseIdle
  /\ RegistryIdle

ClientStar ==
  /\ cpc = "ready"
  /\ request = "star"
  /\ outcome' = StarOutcome(response)
  /\ cpc' = "done"
  /\ UNCHANGED <<request, response, runVars, parseVars, registryVars>>

ClientViewerHasStarred ==
  /\ cpc = "ready"
  /\ request = "viewer_has_starred"
  /\ outcome' = ViewerHasStarredOutcome(response)
  /\ cpc' = "done"
  /\ UNCHANGED <<request, response, runVars, parseVars, registryVars>>

ClientNext == ClientStar \/ ClientViewerHasStarred

ClientSpec == ClientInit /\ [][ClientNext]_vars

(***************************************************************************)
(* ecosystems/ruby.rs: a registry-backed discoverer.  The names of the     *)
(* Gemfile are looked up at rubygems.org one after the other.              *)
(***************************************************************************)
\* most gems a project names
MaxGems == 3
\* most candidate URLs a gem's metadata holds
MaxCandidates == 2

\* gem names, numbered in the order of the BTreeSet
GemNames == 1..MaxGems

\* what a metadata field of a gem may hold
GitHubUrl == Str_https_github \o <<"a", "/", "x">>
NotGitHubUrl == Str_https_example \o <<"a", "/", "x">>
CandidateUrls == {GitHubUrl, NotGitHubUrl}

\* what the registry does for one name: the request fails, or it answers
\* with a status and, for a success, with JSON that may not deserialize
RegistryReplies ==
  {[transport |-> t, status |-> 0, json |-> FALSE, candidates |-> <<>>] :
     t \in {"send_failed"}}
    \cup {[transport |-> "ok", status |-> st, json |-> FALSE, candidates |-> <<>>] :
            st \in {200, 404, 500}}
    \cup {[transport |-> "ok", status |-> 200, json |-> TRUE, candidates |-> cs] :
            cs \in SeqsUpTo(CandidateUrls, MaxCandidates)}

FetchOk(gem) == [ok |-> TRUE, gem |-> gem, error |-> "none"]
FetchErr(e) == [ok |-> FALSE, gem |-> None, error |-> e]

\* ruby.rs 74: the status that means the registry does not know the gem
NotFoundNever(status) == FALSE
NotFound(status) == status = 404

\* ruby.rs 65-78: HttpRubyGemsClient::fetch
Fetch(reply) ==
  IF reply.transport # "ok" THEN FetchErr("Http")
  ELSE IF NotFound(reply.status) THEN FetchOk(None)
  ELSE IF ~IsSuccess(reply.status) THEN FetchErr("UnexpectedStatus")
  ELSE IF ~reply.json THEN FetchErr("Http")
  ELSE FetchOk(Some(reply.candidates))

\* ruby.rs 134-140: the first candidate that is a GitHub repository, with
\* the provenance label of the discoverer
RECURSIVE FirstMatch(_)
RECURSIVE Labelled(_, _)
Labelled(repository, rest) ==
  IF IsSome(repository)
  THEN <<[Unwrap(repository) EXCEPT !.via = Some("RubyGems")]>>
  ELSE FirstMatch(rest)
FirstMatch(candidates) ==
  IF candidates = <<>> THEN <<>>
  ELSE Labelled(ParseGithubRepository(Head(candidates)), Tail(candidates))

\* the names in ascending order
RECURSIVE Ascending(_)
Ascending(set) ==
  IF set = {} THEN <<>>
  ELSE LET least == CHOOSE n \in set : \A m \in set : n <= m
       IN <<least>> \o Ascending(set \ {least})

RegistryInit ==
  /\ names \in {Ascending(set) : set \in SUBSET GemNames}
  /\ registry \in [GemNames -> RegistryReplies]
  /\ \A n \in GemNames \ Range(names) : registry[n].status = 404
  /\ dpc = "loop"
  /\ position = 0
  /\ repositories = <<>>
  /\ returned = None
  /\ RunIdle
  /\ ParseIdle
  /\ ClientIdle

\* ruby.rs 122-141: one iteration of the loop over the names
FetchNext ==
  /\ dpc = "loop"
  /\ position < Len(names)
  /\ \E f \in {Fetch(registry[names[position + 1]])} :
       IF ~f.ok
       THEN /\ returned' = Some(Err(<<"RubyGems", names[position + 1], f.error>>))
            /\ dpc' = "done"
            /\ UNCHANGED <<position, repositories>>
       ELSE /\ repositories' = IF IsSome(f.gem)
                               THEN repositories \o FirstMatch(Unwrap(f.gem))
                               ELSE repositories
            /\ position' = position + 1
            /\ UNCHANGED <<dpc, returned>>
  /\ UNCHANGED <<names, registry, runVars, parseVars, clientVars>>

\* ruby.rs 143
DiscoverReturns ==
  /\ dpc = "loop"
  /\ position = Len(names)
  /\ returned' = Some(Ok(repositories))
  /\ dpc' = "done"
  /\ UNCHANGED <<names, registry, position, repositories, runVars, parseVars,
                 clientVars>>

RegistryNext == FetchNext \/ DiscoverReturns

RegistrySpec == RegistryInit /\ [][RegistryNext]_vars

(***************************************************************************)
(* Properties of the run (checked under Spec).                             *)
(***************************************************************************)
Returned == pc = "returned" /\ IsSome(result)
ReturnedOk == Returned /\ Unwrap(result).ok
SameRepo(c, repo) == c.owner = repo.owner /\ c.name = repo.name
StarCalls == {k \in 1..Len(calls) : calls[k].op = "star"}
QueryCalls == {k \in 1..Len(calls) : calls[k].op = "viewer_has_starred"}
PrevSucceededForReal ==
  IsSome(prev) /\ Unwrap(prev).result.ok /\ ~Unwrap(prev).dry_run

\* C1: after a successful run that was not a dry run, the next run over the
\* same project makes no star call and reports every entry as already
\* starred, in its events and in its summary.
C1_SecondRunIdempotent ==
  PrevSucceededForReal =>
    /\ StarCalls = {}
    /\ \A k \in 1..Len(starred) : starred[k].already_starred
    /\ \A k \in 1..Len(events) :
         events[k].ev = "on_starred" => events[k].already_starred
    /\ ReturnedOk =>
         /\ Len(Unwrap(result).value.starred) = Len(Unwrap(prev).result.value.starred)
         /\ \A k \in 1..Len(Unwrap(result).value.starred) :
              Unwrap(result).value.starred[k].already_starred

\* a second run has completed after a first run that starred a repository
C1_Witness ==
  /\ PrevSucceededForReal
  /\ ReturnedOk
  /\ \E k \in 1..Len(Unwrap(prev).result.value.starred) :
       ~Unwrap(prev).result.value.starred[k].already_starred
  /\ Len(Unwrap(result).value.starred) >= 2

\* C2: in a dry run no star call reaches the GitHub client, every query does,
\* and a completed dry run has queried each unique repository exactly once
\* and reports the queried value as already_starred.
C2_DryRunNoMutation ==
  dry_run =>
    /\ \A k \in StarCalls : ~calls[k].inner
    /\ \A k \in QueryCalls : calls[k].inner
    /\ ReturnedOk =>
         /\ Len(Unwrap(result).value.starred) = Len(unique)
         /\ \A i \in 1..Len(unique) :
              /\ Cardinality({k \in QueryCalls : SameRepo(calls[k], unique[i])}) = 1
              /\ \E k \in QueryCalls :
                   /\ SameRepo(calls[k], unique[i])
                   /\ Unwrap(result).value.starred[i].repository = unique[i]
                   /\ Unwrap(result).value.starred[i].already_starred = calls[k].value

\* a completed dry run with an already-starred and a would-star entry
C2_Witness ==
  /\ dry_run
  /\ ReturnedOk
  /\ \E i, j \in 1..Len(starred) :
       starred[i].already_starred /\ ~starred[j].already_starred
  /\ StarCalls # {}

\* C3: a star call is made exactly for the repositories whose query, the call
\* just before it in the same run, answered false; a repository whose query
\* answered true gets no star call.
C3_QueryBeforeMutate ==
  /\ \A k \in StarCalls :
       /\ k > 1
       /\ calls[k - 1].op = "viewer_has_starred"
       /\ calls[k - 1].owner = calls[k].owner
       /\ calls[k - 1].name = calls[k].name
       /\ calls[k - 1].ok
       /\ ~calls[k - 1].value
  /\ \A k \in QueryCalls :
       (calls[k].ok /\ ~calls[k].value) =>
         \/ k = Len(calls) /\ pc = "star"
         \/ /\ k < Len(calls)
            /\ calls[k + 1].op = "star"
            /\ calls[k + 1].owner = calls[k].owner
            /\ calls[k + 1].name = calls[k].name
  /\ \A k \in QueryCalls :
       (calls[k].ok /\ calls[k].value) =>
         \A j \in StarCalls :
           ~(calls[j].owner = calls[k].owner /\ calls[j].name = calls[k].name)

\* a completed run that starred one repository and skipped a starred one
C3_Witness ==
  /\ ReturnedOk
  /\ StarCalls # {}
  /\ \E k \in QueryCalls : calls[k].ok /\ calls[k].value

\* C4: a failed API call is the last call of its run: the run has returned an
\* error, on_complete was not invoked and no summary was produced.
C4_AbortOnFirstFailure ==
  \A k \in 1..Len(calls) :
    ~calls[k].ok =>
      /\ k = Len(calls)
      /\ Returned
      /\ ~Unwrap(result).ok
      /\ \A e \in 1..Len(events) : events[e].ev # "on_complete"

\* a run that failed on its first repository while a second one was waiting
C4_Witness ==
  /\ Returned
  /\ ~Unwrap(result).ok
  /\ calls # <<>>
  /\ ~calls[Len(calls)].ok
  /\ index = 0
  /\ Len(unique) = 2

(***************************************************************************)
(* Properties of the identity parser (checked under ParseSpec).            *)
(***************************************************************************)
Canonical(owner, repo) ==
  [owner |-> owner, name |-> repo,
   url |-> GitHubUrlBase \o owner \o <<"/">> \o repo, via |-> None]

\* C5: each of the five supported forms of owner/repo parses to the
\* repository with that owner, that name and the canonical url.
C5_EveryFormParses ==
  (ppc = "done" /\ form.kind \in GitHubForms) =>
    parsed = Some(Canonical(form.owner, form.repo))

\* C6: a reference to another host, written as a URL or as an SSH reference,
\* yields no match.
C6_OtherHostsRejected ==
  (ppc = "done" /\ form.kind \in OtherHostForms) => parsed = None

(***************************************************************************)
(* Properties of deduplication and dispatch (checked under Spec).          *)
(***************************************************************************)
Deduplicated ==
  /\ pc \in {"on_start", "loop", "star", "record", "returned"}
  /\ IsSome(dispatched)
  /\ Unwrap(dispatched).ok

\* the elements of xs, from position k on, that no earlier element of xs
\* shares its (owner, name) with
RECURSIVE FirstOccurrences(_, _)
FirstOccurrences(xs, k) ==
  IF k > Len(xs) THEN <<>>
  ELSE (IF \A j \in 1..(k - 1) : Identity(xs[j]) # Identity(xs[k])
        THEN <<xs[k]>> ELSE <<>>) \o FirstOccurrences(xs, k + 1)

\* C7: the deduplicated list is the list of first occurrences of each
\* (owner, name), in the order of the discovered list, each with the via of
\* that first occurrence.
C7_DedupKeepsFirst ==
  Deduplicated => unique = FirstOccurrences(Unwrap(dispatched).value, 1)

\* a later reference with the same identity and another via was dropped
C7_Witness ==
  /\ Deduplicated
  /\ LET xs == Unwrap(dispatched).value IN
     \E j, k \in 1..Len(xs) :
       /\ j < k
       /\ Identity(xs[j]) = Identity(xs[k])
       /\ xs[j].via # xs[k].via
       /\ \E u \in 1..Len(unique) : unique[u] = xs[j]
       /\ \A u \in 1..Len(unique) : unique[u] # xs[k]

AllDiscoverersSucceed ==
  \A i \in 1..Len(frameworks) : Discover(frameworks[i]).ok

RECURSIVE InFrameworkOrder(_)
InFrameworkOrder(i) ==
  IF i > Len(frameworks) THEN <<>>
  ELSE Discover(frameworks[i]).value \o InFrameworkOrder(i + 1)

\* C8: when every discoverer of a multi-framework dispatch succeeds, the
\* dispatch returns the lists of the frameworks concatenated in the order of
\* the framework list, whatever the order the threads finished in.
C8_DispatchInFrameworkOrder ==
  (Len(frameworks) >= 2 /\ AllDiscoverersSucceed /\ IsSome(dispatched)) =>
    /\ Unwrap(dispatched).ok
    /\ Unwrap(dispatched).value = InFrameworkOrder(1)

\* the second thread finished first and the two lists differ
C8_Witness ==
  /\ Len(frameworks) >= 2
  /\ pc = "discovered"
  /\ Unwrap(dispatched).ok
  /\ completed[1] = 2
  /\ Discover(frameworks[1]).value # <<>>
  /\ Discover(frameworks[2]).value # <<>>
  /\ Discover(frameworks[1]).value # Discover(frameworks[2]).value

\* C9: when a discoverer of a multi-framework dispatch fails, the dispatch
\* returns an error without any repository, the run returns an error, and the
\* run makes no observer callback and no API call.
C9_FailFastOnDiscoveryError ==
  (Len(frameworks) >= 2 /\ ~AllDiscoverersSucceed) =>
    /\ events = <<>>
    /\ calls = <<>>
    /\ unique = <<>>
    /\ IsSome(dispatched) =>
         ~Unwrap(dispatched).ok /\ Unwrap(dispatched).value = <<>>
    /\ IsSome(result) => ~Unwrap(result).ok

\* the run returned an error although the first framework found repositories
C9_Witness ==
  /\ Len(frameworks) >= 2
  /\ Returned
  /\ ~Unwrap(result).ok
  /\ Discover(frameworks[1]).ok
  /\ Discover(frameworks[1]).value # <<>>
  /\ ~Discover(frameworks[2]).ok

DispatchReturned ==
  pc \in {"discovered", "on_start", "loop", "star", "record", "returned"}

SomeDiscovererPanics ==
  \E i \in 1..Len(frameworks) : project[frameworks[i]].panics

\* C10: once discover_for_frameworks has returned, with a list or with an
\* error, no discoverer thread of the dispatch is running.
C10_JoinBarrier ==
  DispatchReturned => \A i \in 1..Len(frameworks) : tstate[i] # "running"

\* the dispatch returned the error of the first framework; the handle of the
\* second thread was never joined by the join loop, and the thread finished
C10_Witness ==
  /\ Len(frameworks) >= 2
  /\ pc = "discovered"
  /\ ~Unwrap(dispatched).ok
  /\ joined = 0
  /\ tstate[2] = "finished"

\* C11: when a discoverer of a multi-framework dispatch panics, the dispatch
\* never returns, neither a list nor a DiscoveryError: the run produces no
\* result, no observer callback and no API call, also when an earlier
\* framework returned an error.
C11_PanicIsFatal ==
  (Len(frameworks) >= 2 /\ SomeDiscovererPanics) =>
    /\ ~DispatchReturned
    /\ result = None
    /\ events = <<>>
    /\ calls = <<>>

\* the first framework returned an error, the second one panicked, and the
\* panic ended the dispatch
C11_Witness ==
  /\ Len(frameworks) >= 2
  /\ pc = "panicked"
  /\ project[frameworks[1]].fails
  /\ project[frameworks[2]].panics
  /\ tstate[2] = "panicked"
  /\ joined = 0

DiscoverySucceeded ==
  /\ pc \in {"on_start", "loop", "star", "record", "returned"}
  /\ IsSome(dispatched)
  /\ Unwrap(dispatched).ok

Discovered == Unwrap(dispatched).value
StartEvents == {k \in 1..Len(events) : events[k].ev = "on_start"}

\* C12: in a run whose discovery succeeded, on_start is the first thing the
\* run does to the observer and to the API: no call and no event before it,
\* exactly one on_start once it has happened, and its total is the number of
\* distinct (owner, name) pairs discovered; with nothing discovered the run
\* returns Ok after on_start(0) and on_complete, without an API call.
C12_OnStartOnceFirst ==
  DiscoverySucceeded =>
    /\ pc = "on_start" => events = <<>> /\ calls = <<>>
    /\ pc # "on_start" =>
         /\ StartEvents = {1}
         /\ events[1].total = Cardinality({Identity(Discovered[k]) :
                                             k \in 1..Len(Discovered)})
    /\ (Discovered = <<>> /\ Returned) =>
         /\ ReturnedOk
         /\ calls = <<>>
         /\ Len(events) = 2
         /\ events[1] = [ev |-> "on_start", total |-> 0]
         /\ events[2].ev = "on_complete"
         /\ Unwrap(result).value.starred = <<>>

\* on_start was given 1 for two discovered references to one repository, and
\* API calls followed it
C12_Witness ==
  /\ DiscoverySucceeded
  /\ Len(Discovered) = 2
  /\ StartEvents = {1}
  /\ events[1].total = 1
  /\ calls # <<>>

\* a run over a project with no repository completed
C12_WitnessEmpty ==
  /\ DiscoverySucceeded
  /\ Discovered = <<>>
  /\ ReturnedOk

StarredEvents == SelectSeq(events, LAMBDA e : e.ev = "on_starred")

\* C13: the on_starred events of a run are, in order, one per unique
\* repository handled so far, with index 1, 2, ... and the total on_start was
\* given; the query for the next repository is made only after the event for
\* the one before; a successful run has made all n of them.
C13_OnStarredInOrder ==
  DiscoverySucceeded =>
    /\ Len(StarredEvents) = index
    /\ index <= Len(unique)
    /\ \A i \in 1..Len(StarredEvents) :
         /\ StarredEvents[i].repo = unique[i]
         /\ StarredEvents[i].index = i
         /\ StarredEvents[i].total = Len(unique)
         /\ StarredEvents[i].total = events[1].total
    /\ Cardinality(QueryCalls) <= Len(StarredEvents) + 1
    /\ \A k \in QueryCalls :
         LET i == Cardinality({q \in QueryCalls : q <= k}) IN
           i <= Len(unique) /\ SameRepo(calls[k], unique[i])
    /\ ReturnedOk => Len(StarredEvents) = Len(unique)

\* a successful run over two repositories has reported both
C13_Witness ==
  /\ ReturnedOk
  /\ Len(unique) = 2
  /\ Len(StarredEvents) = 2
  /\ StarredEvents[2].index = 2
  /\ StarredEvents[2].total = 2

CompleteEvents == {k \in 1..Len(events) : events[k].ev = "on_complete"}

\* C14: on_complete happens only in a successful run, once, as the last
\* event and after the on_starred of every unique repository; its summary is
\* the value the run returns and has one entry per unique repository, in
\* deduplicated order, with the flag the observer was given for it.
C14_OnCompleteOnceLast ==
  /\ CompleteEvents # {} => ReturnedOk
  /\ ReturnedOk =>
       /\ CompleteEvents = {Len(events)}
       /\ Len(events) = Len(unique) + 2
       /\ events[Len(events)].summary = Unwrap(result).value
       /\ Len(Unwrap(result).value.starred) = Len(unique)
       /\ \A i \in 1..Len(unique) :
            /\ Unwrap(result).value.starred[i].repository = unique[i]
            /\ events[i + 1].ev = "on_starred"
            /\ events[i + 1].repo = unique[i]
            /\ events[i + 1].already_starred =
                 Unwrap(result).value.starred[i].already_starred

\* a successful run whose summary holds a newly starred and an already
\* starred repository
C14_Witness ==
  /\ ReturnedOk
  /\ CompleteEvents = {4}
  /\ Len(events[4].summary.starred) = 2
  /\ ~events[4].summary.starred[1].already_starred
  /\ events[4].summary.starred[2].already_starred

QueriesUpTo(k) == Cardinality({q \in QueryCalls : q <= k})

\* C15: the API calls of a run form one sequence made by the thread of the
\* run after every discovery thread has ended: the calls for the i-th unique
\* repository are a query followed by at most one star call, they come after
\* all calls for the repositories before it, and a call is made only after
\* the call before it has returned successfully.
C15_SequentialInOrder ==
  calls # <<>> =>
    /\ \A t \in 1..Len(tstate) : tstate[t] # "running"
    /\ calls[1].op = "viewer_has_starred"
    /\ \A k \in 1..Len(calls) :
         /\ QueriesUpTo(k) \in 1..Len(unique)
         /\ SameRepo(calls[k], unique[QueriesUpTo(k)])
         /\ k > 1 => calls[k - 1].ok
         /\ (k > 1 /\ calls[k].op = "star") => calls[k - 1].op = "viewer_has_starred"
    /\ \A j, k \in 1..Len(calls) :
         (j < k) => QueriesUpTo(j) <= QueriesUpTo(k)

\* the first repository was queried and starred before the second was queried
\* and starred, after a dispatch that ran two threads
C15_Witness ==
  /\ Len(calls) = 4
  /\ Len(unique) = 2
  /\ Len(tstate) = 2
  /\ calls[2].op = "star"
  /\ SameRepo(calls[2], unique[1])
  /\ calls[4].op = "star"
  /\ SameRepo(calls[4], unique[2])

CallsFor(op, id) ==
  {k \in 1..Len(calls) : calls[k].op = op /\ <<calls[k].owner, calls[k].name>> = id}

\* C16: in one run every discovered (owner, name) pair gets at most one
\* viewer_has_starred call and at most one star call, however often it was
\* discovered; a successful run over a single repository whose query
\* answered false has made exactly one star call and returns a summary with
\* that one repository and already_starred = FALSE.
C16_OneCallPerIdentity ==
  DiscoverySucceeded =>
    /\ \A d \in 1..Len(Discovered) :
         /\ Cardinality(CallsFor("viewer_has_starred", Identity(Discovered[d]))) <= 1
         /\ Cardinality(CallsFor("star", Identity(Discovered[d]))) <= 1
    /\ \A k \in 1..Len(calls) :
         \E d \in 1..Len(Discovered) :
           <<calls[k].owner, calls[k].name>> = Identity(Discovered[d])
    /\ (ReturnedOk /\ Len(unique) = 1 /\ ~calls[1].value) =>
         /\ Cardinality(StarCalls) = 1
         /\ Len(Unwrap(result).value.starred) = 1
         /\ Unwrap(result).value.starred[1].repository = unique[1]
         /\ ~Unwrap(result).value.starred[1].already_starred

\* two frameworks discovered the same repository, it was not starred, and the
\* run starred it once
C16_Witness ==
  /\ ReturnedOk
  /\ Len(frameworks) = 2
  /\ Len(Discovered) = 2
  /\ Identity(Discovered[1]) = Identity(Discovered[2])
  /\ Discovered[1].via # Discovered[2].via
  /\ Cardinality(StarCalls) = 1
  /\ Len(Unwrap(result).value.starred) = 1
  /\ ~Unwrap(result).value.starred[1].already_starred

PrevSucceeded == IsSome(prev) /\ Unwrap(prev).result.ok
PrevSummary == Unwrap(prev).result.value.starred
Summary == Unwrap(result).value.starred

\* C17, as stated: of two successful runs over the same repository set, the
\* second makes no star call and reports for every repository the flag the
\* first one reported.
C17_SameFlagsInBothRuns ==
  (PrevSucceededForReal /\ ReturnedOk) =>
    /\ StarCalls = {}
    /\ Len(Summary) = Len(PrevSummary)
    /\ \A k \in 1..Len(Summary) :
         Summary[k].already_starred = PrevSummary[k].already_starred

\* C17, amended: two successful runs report the same repositories in the same
\* order. After a first run that was not a dry run the second makes no star
\* call, every repository it reports is starred on the remote and reported
\* as already starred, so its flag is the first run's flag only where the
\* first run found the repository starred. After a dry first run the remote
\* is unchanged and the second run reports the first run's flags.
C17_SecondRunFlags ==
  (PrevSucceeded /\ ReturnedOk) =>
    /\ Len(Summary) = Len(PrevSummary)
    /\ \A k \in 1..Len(Summary) :
         /\ Summary[k].repository = PrevSummary[k].repository
         /\ ~Unwrap(prev).dry_run =>
              /\ Summary[k].already_starred
              /\ Identity(Summary[k].repository) \in remote
              /\ CallsFor("star", Identity(Summary[k].repository)) = {}
         /\ Unwrap(prev).dry_run =>
              Summary[k].already_starred = PrevSummary[k].already_starred
    /\ ~Unwrap(prev).dry_run => StarCalls = {}

\* the first run starred its first repository and found the second starred;
\* the second run reports both as already starred
C17_Witness ==
  /\ PrevSucceededForReal
  /\ ReturnedOk
  /\ Len(Summary) = 2
  /\ ~PrevSummary[1].already_starred
  /\ PrevSummary[2].already_starred
  /\ Summary[1].already_starred
  /\ Summary[2].already_starred

\* a dry run that would have starred a repository is followed by a run that
\* stars it
C17_WitnessAfterDryRun ==
  /\ PrevSucceeded
  /\ Unwrap(prev).dry_run
  /\ ~dry_run
  /\ ReturnedOk
  /\ StarCalls # {}

\* C18: deduplicating the deduplicated list changes nothing, and no two
\* entries of the deduplicated list have the same (owner, name).
C18_DedupIdempotent ==
  Deduplicated =>
    /\ Dedup(unique) = unique
    /\ Dedup(Dedup(Discovered)) = Dedup(Discovered)
    /\ \A i, j \in 1..Len(unique) :
         Identity(unique[i]) = Identity(unique[j]) => i = j

\* a repository was discovered before and after another one, and the
\* deduplicated list holds each of the two once
C18_Witness ==
  /\ Deduplicated
  /\ pc = "on_start"
  /\ Len(Discovered) >= 3
  /\ Identity(Discovered[1]) # Identity(Discovered[2])
  /\ Identity(Discovered[1]) = Identity(Discovered[3])
  /\ Len(unique) = 2

\* the segments of a shorthand input: what is left of the input, without
\* surrounding white space and without the github: prefix, once leading and
\* trailing slashes are removed, cut at every slash
ShorthandBody ==
  IF form.kind = "github:segments"
  THEN Trim(DropPrefix(Trim(input), Str_github_colon))
  ELSE Trim(input)
ShorthandSegments == Split(TrimMatches(ShorthandBody, "/"), "/")
TwoNonEmptySegments ==
  /\ Len(ShorthandSegments) = 2
  /\ Trim(ShorthandSegments[1]) # <<>>
  /\ Trim(ShorthandSegments[2]) # <<>>

\* C19: a shorthand input, bare or after github:, that yields a repository
\* has exactly two segments, both non-empty, and the repository has them as
\* owner and name; an input of one segment, of three or more, or with an
\* empty owner or repo yields no match. For inputs written from plain names
\* only, that is: exactly the inputs of two names are accepted.
C19_ShorthandTwoSegments ==
  (ppc = "done" /\ form.kind \in SegmentKinds) =>
    /\ IsSome(parsed) =>
         /\ TwoNonEmptySegments
         /\ Unwrap(parsed).owner = Trim(ShorthandSegments[1])
         /\ Unwrap(parsed).name = Trim(ShorthandSegments[2])
    /\ ~TwoNonEmptySegments => parsed = None
    /\ (\A k \in 1..Len(form.segs) : form.segs[k] \in {<<"a">>, <<"B">>}) =>
         (IsSome(parsed) <=> Len(form.segs) = 2)

\* an input of three names was parsed and rejected
C19_Witness ==
  /\ ppc = "done"
  /\ form.kind = "segments"
  /\ form.segs = <<<<"a">>, <<"B">>, <<"a">>>>
  /\ parsed = None

\* an input of two names after github: was parsed and accepted
C19_WitnessAccepted ==
  /\ ppc = "done"
  /\ form.kind = "github:segments"
  /\ form.segs = <<<<"a">>, <<"B">>>>
  /\ IsSome(parsed)

\* an input whose owner is blank was parsed and rejected
C19_WitnessEmptyOwner ==
  /\ ppc = "done"
  /\ form.kind = "segments"
  /\ form.segs = <<<<>>, <<" ">>, <<"a">>>>
  /\ parsed = None

\* a guarded entry was called on a project root without marker files, or
\* run_with_frameworks with an empty list
CalledWithoutFrameworks ==
  /\ pc = "entry"
  /\ \/ entered \in DetectingEntries /\ markers = {}
     \/ entered = "run_with_frameworks" /\ frameworks = <<>>

ReturnedNoFrameworks ==
  /\ pc = "returned"
  /\ result = Some(NoFrameworksError)

NothingRan ==
  /\ events = <<>>
  /\ calls = <<>>
  /\ dispatched = None
  /\ spawned = 0
  /\ \A i \in 1..Len(tstate) : tstate[i] = "unspawned"

\* C20: the step a run takes when run or run_with_handler finds no marker
\* file, or run_with_frameworks is given an empty list, is the return of the
\* NoFrameworks error; a run that returned it has made no observer callback
\* and no API call and has run no discoverer.
C20_NoFrameworksIsUsageError ==
  /\ [][CalledWithoutFrameworks => (ReturnedNoFrameworks /\ NothingRan)']_vars
  /\ [](ReturnedNoFrameworks => NothingRan)

\* run found no marker file and returned the usage error
C20_Witness ==
  /\ ReturnedNoFrameworks
  /\ entered = "run"
  /\ markers = {}
  /\ NothingRan

\* run_with_frameworks returned the usage error for an empty list in a
\* project root that has marker files
C20_WitnessEmptyList ==
  /\ ReturnedNoFrameworks
  /\ entered = "run_with_frameworks"
  /\ markers # {}

(***************************************************************************)
(* Properties of the GitHub client (checked under ClientSpec).             *)
(***************************************************************************)
StarReturned == cpc = "done" /\ request = "star" /\ response.transport # "send_failed"

\* C21: star, given an HTTP response, returns Ok exactly when the status is
\* 2xx or 304; for every other status it returns GitHubError::Api with the
\* status of the response.
C21_StarSuccessStatuses ==
  StarReturned =>
    /\ outcome.ok <=> (response.status \in 200..299 \/ response.status = 304)
    /\ ~outcome.ok => (outcome.kind = "Api" /\ outcome.status = response.status)

\* star returned Ok for a 304 response
C21_Witness ==
  /\ StarReturned
  /\ response.status = 304
  /\ outcome.ok

\* star returned the Api error of a 401 response
C21_WitnessError ==
  /\ StarReturned
  /\ response.status = 401
  /\ outcome.kind = "Api"
  /\ outcome.status = 401

ViewerReturned ==
  cpc = "done" /\ request = "viewer_has_starred" /\ response.transport = "ok"

\* the body is JSON that holds no errors list and holds the repository with
\* its flag
BodyAnswers ==
  /\ response.body.valid
  /\ response.body.errors.field # "list"
  /\ response.body.data.field = "object"
  /\ response.body.data.repository = "object"
  /\ response.body.data.flag \in {"true", "false"}

\* C22: viewer_has_starred, given an HTTP response, returns Ok exactly when
\* the status is a success, the body parses, it has no errors list and the
\* repository data is there, and then with the flag of the body; in every
\* other case it returns GitHubError::Api with the status of the response,
\* never Ok(false).
C22_ViewerHasStarredErrors ==
  ViewerReturned =>
    /\ outcome.ok <=> (response.status \in 200..299 /\ BodyAnswers)
    /\ outcome.ok => (outcome.value <=> response.body.data.flag = "true")
    /\ ~outcome.ok => (outcome.kind = "Api" /\ outcome.status = response.status)

\* a 200 response with an errors list next to a repository that is not
\* starred was returned as the Api error with the message
C22_Witness ==
  /\ ViewerReturned
  /\ response.status = 200
  /\ response.body.errors.list = <<"boom">>
  /\ response.body.data.flag = "false"
  /\ outcome.kind = "Api"
  /\ outcome.body = <<"boom">>

\* a 200 response without repository data was returned as an Api error
C22_WitnessMissing ==
  /\ ViewerReturned
  /\ response.status = 200
  /\ response.body.valid
  /\ response.body.errors.field = "absent"
  /\ response.body.data.repository = "null"
  /\ outcome.kind = "Api"

\* a 200 response with the flag was returned as Ok(true)
C22_WitnessOk ==
  /\ ViewerReturned
  /\ response.status = 200
  /\ outcome.ok
  /\ outcome.value


(***************************************************************************)
(* Properties of a registry-backed discoverer (checked under RegistrySpec).*)
(***************************************************************************)
\* the registry does not know gem n
Absent(n) == registry[n].transport = "ok" /\ registry[n].status = 404
\* the registry answers with the metadata of gem n
Known(n) ==
  /\ registry[n].transport = "ok"
  /\ registry[n].status \in 200..299
  /\ registry[n].json

\* the repositories of the dependencies the registry knows, in name order
RECURSIVE RepositoriesOfKnown(_)
RepositoriesOfKnown(ns) ==
  IF ns = <<>> THEN <<>>
  ELSE (IF Known(Head(ns)) THEN FirstMatch(registry[Head(ns)].candidates) ELSE <<>>)
         \o RepositoriesOfKnown(Tail(ns))

DiscoverReturned == dpc = "done" /\ IsSome(returned)

\* C23: a dependency the registry reports as not found is not an error.  It
\* is skipped without a trace: the loop goes on to the next name, what has
\* been collected is exactly the repositories of the known dependencies
\* handled so far, an error is only ever returned for a name whose lookup
\* failed for another reason, and when every name is either known or absent
\* discover returns Ok with the repositories of the known ones.
C23_AbsentDependencySkipped ==
  /\ repositories = RepositoriesOfKnown(SubSeq(names, 1, position))
  /\ \A k \in 1..position : Absent(names[k]) \/ Known(names[k])
  /\ DiscoverReturned =>
       IF \A k \in 1..Len(names) : Absent(names[k]) \/ Known(names[k])
       THEN Unwrap(returned) = Ok(RepositoriesOfKnown(names))
       ELSE /\ ~Unwrap(returned).ok
            /\ position < Len(names)
            /\ ~Absent(names[position + 1])
            /\ ~Known(names[position + 1])

\* three gems, the middle one absent from the registry, the other two
\* resolved: discover returned Ok with the two repositories
C23_Witness ==
  /\ DiscoverReturned
  /\ names = <<1, 2, 3>>
  /\ Absent(2)
  /\ Known(1) /\ Known(3)
  /\ Unwrap(returned).ok
  /\ Len(Unwrap(returned).value) = 2
  /\ \A k \in 1..2 : Unwrap(returned).value[k].via = Some("RubyGems")

\* every dependency is absent: Ok with no repository
C23_WitnessAllAbsent ==
  /\ DiscoverReturned
  /\ Len(names) = MaxGems
  /\ \A k \in 1..Len(names) : Absent(names[k])
  /\ Unwrap(returned) = Ok(<<>>)


(***************************************************************************)
(* Provenance as the observer of the command line reports it.              *)
(***************************************************************************)
\* main.rs 210: the label CliRunHandler::on_starred prints after " via "
ViaText(repo) == IF IsSome(repo.via) THEN Unwrap(repo.via) ELSE "unknown source"

\* C24: when the project is scanned with the Node discoverer alone, every
\* repository the observer is told about carries the provenance
\* "package.json", and that is the label the run reports it with.
C24_NodeViaPackageJson ==
  frameworks = <<"Node">> =>
    \A k \in 1..Len(events) :
      events[k].ev = "on_starred" =>
        /\ events[k].repo.via = Some("package.json")
        /\ ViaText(events[k].repo) = "package.json"


(***************************************************************************)
(* Which error a dispatch with several failures returns.                   *)
(***************************************************************************)
\* the positions of the framework list whose discoverer returns an error
FailingPositions ==
  {i \in 1..Len(frameworks) : project[frameworks[i]].fails}

EarliestFailing == CHOOSE i \in FailingPositions : \A j \in FailingPositions : i <= j

\* C25: when two or more discoverers of a multi-framework dispatch return an
\* error, the dispatch returns the error of the failing framework that is
\* first in the framework list, and the run returns that one error, whatever
\* the order the threads finished in.
C25_EarliestFailureInListOrder ==
  (Len(frameworks) >= 2 /\ Cardinality(FailingPositions) >= 2) =>
    /\ DispatchReturned =>
         dispatched = Some(Err(frameworks[EarliestFailing]))
    /\ Returned =>
         Unwrap(result) = Err(<<"Discovery", frameworks[EarliestFailing]>>)

\* two different frameworks failed, the second one first, and the run
\* returned the error of the first
C25_Witness ==
  /\ Len(frameworks) >= 2
  /\ frameworks[1] # frameworks[2]
  /\ {1, 2} \subseteq FailingPositions
  /\ completed = <<2, 1>>
  /\ Returned
  /\ Unwrap(result) = Err(<<"Discovery", frameworks[1]>>)


(***************************************************************************)
(* What every Repository the parser builds looks like.                     *)
(***************************************************************************)
WellFormed(repo) ==
  /\ repo.owner # <<>>
  /\ repo.name # <<>>
  /\ ~EndsWith(repo.name, DotGit)
  /\ repo.url = GitHubUrlBase \o repo.owner \o <<"/">> \o repo.name

\* C26: every repository parse_github_repository returns, for any input, has
\* a non-empty owner, a non-empty name that does not end with .git, and the
\* url https://github.com/ + owner + / + name; a reference whose repo part is
\* nothing but .git suffixes yields no match.
C26_RepositoryWellFormed ==
  ppc = "done" =>
    /\ IsSome(parsed) => WellFormed(Unwrap(parsed))
    /\ (form.kind \in SuffixedForms /\ form.repo = <<>>) => parsed = None

\* a name followed by two .git suffixes was parsed to the bare name
C26_Witness ==
  /\ ppc = "done"
  /\ form.kind = "https.git"
  /\ form.repo # <<>>
  /\ form.segs = <<DotGit, DotGit>>
  /\ IsSome(parsed)
  /\ Unwrap(parsed).name = form.repo

\* a repo part of .git alone was parsed and rejected
C26_WitnessEmptyName ==
  /\ ppc = "done"
  /\ form.kind = "shorthand.git"
  /\ form.repo = <<>>
  /\ form.segs = <<DotGit>>
  /\ parsed = None


(***************************************************************************)
(* Identity is case-sensitive.                                             *)
(***************************************************************************)
DiffersOnlyInCase(r1, r2) ==
  /\ Identity(r1) # Identity(r2)
  /\ FoldCase(r1.owner) = FoldCase(r2.owner)
  /\ FoldCase(r1.name) = FoldCase(r2.name)

Kept(repo) == {u \in 1..Len(unique) : Identity(unique[u]) = Identity(repo)}
SummaryEntries(repo) ==
  {k \in 1..Len(Summary) : Identity(Summary[k].repository) = Identity(repo)}

\* C27: two discovered repositories whose owner or name differ only in the
\* case of letters are two repositories: deduplication keeps one record of
\* each, and a successful run has made one viewer_has_starred call for each
\* and returns a summary with one entry for each.
C27_CaseSensitiveIdentity ==
  DiscoverySucceeded =>
    \A j, k \in 1..Len(Discovered) :
      DiffersOnlyInCase(Discovered[j], Discovered[k]) =>
        /\ Cardinality(Kept(Discovered[j])) = 1
        /\ Cardinality(Kept(Discovered[k])) = 1
        /\ ReturnedOk =>
             /\ Cardinality(CallsFor("viewer_has_starred", Identity(Discovered[j]))) = 1
             /\ Cardinality(CallsFor("viewer_has_starred", Identity(Discovered[k]))) = 1
             /\ Cardinality(SummaryEntries(Discovered[j])) = 1
             /\ Cardinality(SummaryEntries(Discovered[k])) = 1

\* a/x and A/x were discovered; the run queried both and reports both
C27_Witness ==
  /\ ReturnedOk
  /\ Len(Discovered) = 2
  /\ DiffersOnlyInCase(Discovered[1], Discovered[2])
  /\ Len(unique) = 2
  /\ Cardinality(QueryCalls) = 2
  /\ Len(Summary) = 2
  /\ Identity(Summary[1].repository) # Identity(Summary[2].repository)


(***************************************************************************)
(* Discovery is over before reconciliation begins.                         *)
(***************************************************************************)
NoThreadRunning == \A t \in 1..Len(tstate) : tstate[t] # "running"

\* C28: every step of a run that calls the observer or the GitHub API is
\* taken when no discoverer thread of the run is executing: the threads have
\* all ended before the first callback and none is started after it.
C28_NoCallbackWhileDiscovering ==
  [][(events' # events \/ calls' # calls) => NoThreadRunning]_vars

\* after a dispatch of two threads, of which the second finished first, the
\* run has called the observer and the API
C28_Witness ==
  /\ Len(frameworks) >= 2
  /\ completed = <<2, 1>>
  /\ pc = "star"
  /\ Len(events) = 1
  /\ Len(calls) = 1
  /\ NoThreadRunning


(***************************************************************************)
(* What has happened before on_starred is called.                          *)
(***************************************************************************)
\* the calls of the run made for a repository
CallsOf(op, repo) == {c \in 1..Len(calls) : calls[c].op = op /\ SameRepo(calls[c], repo)}
FailedCalls == {c \in 1..Len(calls) : ~calls[c].ok}

\* C29: whenever the observer has received on_starred for a repository, the
\* call log of the run holds a successful viewer_has_starred call for it whose
\* answer is the flag of the event, and, when that answer was false, a
\* successful star call for it right after the query; the repository of a
\* failed API call has no on_starred event, and nothing is called after it.
C29_OnStarredAfterSuccess ==
  /\ \A k \in 1..Len(StarredEvents) :
       LET e == StarredEvents[k] IN
       /\ \E q \in CallsOf("viewer_has_starred", e.repo) :
            /\ calls[q].ok
            /\ calls[q].value = e.already_starred
            /\ ~e.already_starred =>
                 /\ q < Len(calls)
                 /\ calls[q + 1].op = "star"
                 /\ SameRepo(calls[q + 1], e.repo)
                 /\ calls[q + 1].ok
       /\ \A c \in CallsOf("viewer_has_starred", e.repo) \cup CallsOf("star", e.repo) :
            calls[c].ok
  /\ \A c \in FailedCalls :
       /\ c = Len(calls)
       /\ \A k \in 1..Len(StarredEvents) : ~SameRepo(calls[c], StarredEvents[k].repo)
       /\ Len(StarredEvents) = QueriesUpTo(c) - 1

\* the first repository was starred and reported; the star call for the
\* second failed and the observer has heard of the first only
C29_Witness ==
  /\ Returned
  /\ ~Unwrap(result).ok
  /\ Len(unique) = 2
  /\ Len(calls) = 4
  /\ calls[4].op = "star"
  /\ ~calls[4].ok
  /\ Len(StarredEvents) = 1
  /\ StarredEvents[1].repo = unique[1]
  /\ ~StarredEvents[1].already_starred

\* the query for the only repository failed: no on_starred at all
C29_WitnessQueryFailed ==
  /\ Returned
  /\ Len(unique) = 1
  /\ Len(calls) = 1
  /\ ~calls[1].ok
  /\ StarredEvents = <<>>


(***************************************************************************)
(* A run that is aborted by an API failure, and the run after it.          *)
(***************************************************************************)
\* the run has returned the error of a failed API call
Aborted == Returned /\ ~Unwrap(result).ok /\ FailedCalls # {}
PrevAborted ==
  /\ IsSome(prev)
  /\ ~Unwrap(prev).dry_run
  /\ ~Unwrap(prev).result.ok
  /\ Unwrap(prev).result.error = <<"GitHub", "Api">>
PrevDelivered == Unwrap(prev).delivered

\* C30: when a run that is not a dry run is aborted by a failed API call for
\* its k-th repository, the k-1 repositories before it have had their
\* on_starred, each of them is starred on the remote, and the run has
\* returned the error without on_complete and without a summary.  In the run
\* after it the same repositories come first, each is reported as already
\* starred and none gets a star call, and when that run succeeds its summary
\* holds them as already starred.
C30_NoRollbackOnAbort ==
  /\ (Aborted /\ ~dry_run) =>
       /\ Len(StarredEvents) = QueriesUpTo(Len(calls)) - 1
       /\ \A j \in 1..Len(StarredEvents) :
            /\ StarredEvents[j].repo = unique[j]
            /\ Identity(unique[j]) \in remote
       /\ CompleteEvents = {}
       /\ Unwrap(result).value = <<>>
  /\ PrevAborted =>
       /\ \A j \in 1..Len(PrevDelivered) :
            /\ Identity(PrevDelivered[j].repository) \in remote
            /\ CallsFor("star", Identity(PrevDelivered[j].repository)) = {}
            /\ j <= Len(starred) =>
                 /\ starred[j].repository = PrevDelivered[j].repository
                 /\ starred[j].already_starred
            /\ j <= Len(StarredEvents) =>
                 /\ StarredEvents[j].repo = PrevDelivered[j].repository
                 /\ StarredEvents[j].already_starred
       /\ ReturnedOk =>
            /\ Len(Summary) > Len(PrevDelivered)
            /\ \A j \in 1..Len(PrevDelivered) : Summary[j].already_starred

\* the first run starred its first repository and was aborted at the second;
\* the second run succeeded, found the first starred and starred the second
C30_Witness ==
  /\ PrevAborted
  /\ Len(PrevDelivered) = 1
  /\ ~PrevDelivered[1].already_starred
  /\ ReturnedOk
  /\ ~dry_run
  /\ Len(Summary) = 2
  /\ Summary[1].already_starred
  /\ ~Summary[2].already_starred
  /\ Cardinality(StarCalls) = 1

\* the aborted run itself: one repository starred and reported, then the error
C30_WitnessAborted ==
  /\ Aborted
  /\ ~dry_run
  /\ run = 1
  /\ Len(StarredEvents) = 1
  /\ ~StarredEvents[1].already_starred
  /\ Identity(unique[1]) \in remote
  /\ Len(calls) = 3

====
